---- MODULE Spec2Model ----
(***************************************************************************)
(* Model of najmulkhan/cosine-similarity-vector.                           *)
(*                                                                         *)
(*   src/cosine-similarity.py  cosine_similarity(v1, v2) on integer        *)
(*                             vectors, computed in IEEE-754 binary64 as   *)
(*                             CPython computes it (math.sqrt, *, /).      *)
(*   src/cosine-vector.py      the dataset scan (lines 696-877, the live   *)
(*                             revision; the lines before it are            *)
(*                             commented-out earlier revisions):            *)
(*                             extract_key_data_from_file,                  *)
(*                             process_dataset_folder, the loop over        *)
(*                             DATASET_FOLDER_NAMES, the top-10 sort and    *)
(*                             the printed report.                          *)
(*                                                                         *)
(* Three specifications share the variables:                               *)
(*   Spec         a run of cosine-vector.py on a dataset chosen in Init:   *)
(*                a few files of any kind spread over the folders, one     *)
(*                folder of more than ten scored files, or such a folder   *)
(*                followed by two small ones;                              *)
(*   SpecExtract  a run of cosine-vector.py on a folder of two files, one  *)
(*                of them made of any Topic and Question lines;            *)
(*   SpecCos      one call of cosine_similarity on a pair of vectors.      *)
(***************************************************************************)
EXTENDS Integers, Sequences, FiniteSets, TLC

VARIABLES
    dataset,                \* the folders on disk: name -> NoFolder or its .txt files
    pc,                     \* position of the script in cosine-vector.py
    folder_idx,             \* index into DATASET_FOLDER_NAMES of the main loop
    file_idx,               \* index into dataset_files of the loop of line 774
    similarities,           \* local list of process_dataset_folder
    duplicate_warnings,     \* local list of process_dataset_folder
    unique_questions,       \* the set of line 825, shared by all folders
    all_similarities,       \* line 824
    all_duplicate_warnings, \* the dict of line 826, as <<folder, warnings>> in insertion order
    top_results,            \* line 841
    output,                 \* what lines 843-870 have printed, a line or block per element
    vector1, vector2,       \* the arguments of cosine_similarity
    similarity              \* what the call of cosine-similarity.py line 19 gave

scan_vars == <<dataset, pc, folder_idx, file_idx, similarities, duplicate_warnings,
               unique_questions, all_similarities, all_duplicate_warnings, top_results,
               output>>
cos_vars == <<vector1, vector2, similarity>>
vars == <<scan_vars, cos_vars>>

(***************************************************************************)
(* Bounds of the model.                                                    *)
(***************************************************************************)
MaxLen == 3         \* longest vector handed to cosine_similarity
MaxFiles == 3       \* .txt files of a dataset whose files are of any kind
MaxScored == 11     \* .txt files of a dataset of one folder of scored files (more than TOP_K)
MaxLines == 3       \* lines of a file whose lines are of any kind

Elems == {-1, 0, 1}     \* the vector elements that are tried

Min(a, b) == IF a < b THEN a ELSE b
Abs(n) == IF n < 0 THEN -n ELSE n

(***************************************************************************)
(* IEEE-754 binary64, round to nearest even: what CPython's float is.      *)
(* A float is [sgn, man, exp] with value sgn * man * 2^exp, where man is   *)
(* a natural number in [2^52, 2^53) held as NumLimbs limbs of LimbBits     *)
(* bits, least significant first (TLC's integers have 32 bits); zero is    *)
(* FZero.  Exponent overflow and subnormals do not arise for the small     *)
(* integers of the model and are not modelled.                             *)
(***************************************************************************)
MantBits == 53
LimbBits == 13
LimbBase == 8192
NumLimbs == 9
Limbs == 1..NumLimbs

RECURSIVE Pow2(_)
Pow2(i) == IF i = 0 THEN 1 ELSE 2 * Pow2(i - 1)
RECURSIVE BitLen(_)
BitLen(n) == IF n = 0 THEN 0 ELSE 1 + BitLen(n \div 2)

BZero == <<0, 0, 0, 0, 0, 0, 0, 0, 0>>
BOne == <<1, 0, 0, 0, 0, 0, 0, 0, 0>>
BPow2(k) == [BZero EXCEPT ![(k \div LimbBits) + 1] = Pow2(k % LimbBits)]
BFromInt(n) == [BZero EXCEPT ![1] = n % LimbBase, ![2] = (n \div LimbBase) % LimbBase,
                             ![3] = (n \div LimbBase) \div LimbBase]
\* a with bit k set; bit k of a is clear
BSetBit(a, k) == [a EXCEPT ![(k \div LimbBits) + 1] = @ + Pow2(k % LimbBits)]
BOdd(a) == a[1] % 2 = 1

BCmp(a, b) ==
    LET D == {i \in Limbs : a[i] # b[i]}
    IN  IF D = {} THEN 0
        ELSE LET m == CHOOSE i \in D : \A j \in D : j <= i
             IN  IF a[m] > b[m] THEN 1 ELSE -1

\* the limbs of the number whose i-th column holds cols[i] (columns may exceed a limb,
\* or be negative when a larger number absorbs the borrow)
RECURSIVE Carry(_, _, _)
Carry(cols, i, c) ==
    IF i > NumLimbs THEN <<>>
    ELSE <<(cols[i] + c) % LimbBase>> \o Carry(cols, i + 1, (cols[i] + c) \div LimbBase)

BAdd(a, b) == Carry([i \in Limbs |-> a[i] + b[i]], 1, 0)
\* a - b, for a >= b
BSub(a, b) == Carry([i \in Limbs |-> a[i] - b[i]], 1, 0)
Term(a, b, k, i) == IF i <= k THEN a[i] * b[k + 1 - i] ELSE 0
Col(a, b, k) == Term(a, b, k, 1) + Term(a, b, k, 2) + Term(a, b, k, 3) + Term(a, b, k, 4)
              + Term(a, b, k, 5) + Term(a, b, k, 6) + Term(a, b, k, 7) + Term(a, b, k, 8)
              + Term(a, b, k, 9)
\* a * b, for a product below 2^(NumLimbs * LimbBits)
BMul(a, b) == Carry([k \in Limbs |-> Col(a, b, k)], 1, 0)

\* acc with bit k set when the product stays within n
BTry(n, d, sq, acc, k) ==
    IF BCmp(BMul(BSetBit(acc, k), IF sq THEN BSetBit(acc, k) ELSE d), n) <= 0
    THEN BSetBit(acc, k) ELSE acc
\* the largest q extending acc by bits hi..lo with q * (IF sq THEN q ELSE d) <= n; the high
\* half of the bits is decided (and compared, so that TLC evaluates it) before the low half
RECURSIVE BSearch(_, _, _, _, _, _)
BSearch(n, d, sq, acc, hi, lo) ==
    IF hi = lo THEN BTry(n, d, sq, acc, hi)
    ELSE LET mid == (hi + lo + 1) \div 2
             a   == BSearch(n, d, sq, acc, hi, mid)
         IN  IF BCmp(a, acc) >= 0 THEN BSearch(n, d, sq, a, mid - 1, lo) ELSE acc
\* floor(sqrt(n)) and floor(n / d), for results below 2^MantBits
BISqrt(n) == BSearch(n, BZero, TRUE, BZero, MantBits - 1, 0)
BDiv(n, d) == BSearch(n, d, FALSE, BZero, MantBits - 1, 0)

FZero == [sgn |-> 0, man |-> BZero, exp |-> 0]
\* m is in [2^52, 2^53]: a mantissa rounded up to 2^53 moves to the next exponent
FNorm(s, m, e) ==
    IF BCmp(m, BPow2(MantBits)) = 0
    THEN [sgn |-> s, man |-> BPow2(MantBits - 1), exp |-> e + 1]
    ELSE [sgn |-> s, man |-> m, exp |-> e]
\* q = floor(x / d) rounded to nearest, ties to even, by twice the remainder
RoundHalfEven(q, twoR, d) ==
    LET c == BCmp(twoR, d)
    IN  IF c > 0 \/ (c = 0 /\ BOdd(q)) THEN BAdd(q, BOne) ELSE q

\* int -> float, exact for |n| < 2^53
FromInt(n) ==
    IF n = 0 THEN FZero
    ELSE [sgn |-> IF n < 0 THEN -1 ELSE 1,
          man |-> BMul(BFromInt(Abs(n)), BPow2(MantBits - BitLen(Abs(n)))),
          exp |-> BitLen(Abs(n)) - MantBits]

\* math.sqrt of a non-negative int: correctly rounded (a square root is never a tie)
FSqrtExact(n) ==
    IF n = 0 THEN FZero
    ELSE LET L  == BitLen(n)
             k2 == IF (2 * MantBits - L) % 2 = 0 THEN 2 * MantBits - L
                                                 ELSE 2 * MantBits - 1 - L
             N  == BMul(BFromInt(n), BPow2(k2))
             m0 == BISqrt(N)
             r  == BSub(N, BMul(m0, m0))
         IN  FNorm(1, IF BCmp(r, m0) > 0 THEN BAdd(m0, BOne) ELSE m0, -(k2 \div 2))

\* float * float
FMulExact(x, y) ==
    IF y.sgn = 0 \/ x.sgn = 0 THEN FZero
    ELSE LET P == BMul(x.man, y.man)
             s == IF BCmp(P, BPow2(2 * MantBits - 1)) >= 0 THEN MantBits ELSE MantBits - 1
             d == BPow2(s)
             q == BDiv(P, d)
             r == BSub(P, BMul(q, d))
         IN  FNorm(x.sgn * y.sgn, RoundHalfEven(q, BAdd(r, r), d), x.exp + y.exp + s)

\* float / float, for y # 0
FDivExact(x, y) ==
    IF x.sgn = 0 THEN FZero
    ELSE LET t == IF BCmp(x.man, y.man) >= 0 THEN MantBits - 1 ELSE MantBits
             N == BMul(x.man, BPow2(t))
             q == BDiv(N, y.man)
             r == BSub(N, BMul(q, y.man))
         IN  FNorm(x.sgn * y.sgn, RoundHalfEven(q, BAdd(r, r), y.man), x.exp - y.exp - t)

FNeg(x) == [x EXCEPT !.sgn = -@]
\* |x| <= 1.0
FAbsLeOne(x) ==
    \/ x.sgn = 0
    \/ x.exp < 1 - MantBits
    \/ x.exp = 1 - MantBits /\ x.man = BPow2(MantBits - 1)

(***************************************************************************)
(* src/cosine-similarity.py                                                *)
(***************************************************************************)
\* what a call gives: a value, or an exception
Returned(v) == [raised |-> "none", value |-> v]
Raised(e) == [raised |-> e, value |-> FZero]
NotCalled == [raised |-> "not called", value |-> FZero]

\* zip(v1, v2): pairs up to the end of the shorter argument
zip(v1, v2) == [i \in 1..Min(Len(v1), Len(v2)) |-> <<v1[i], v2[i]>>]
\* sum(...) of a list of ints (Python ints do not overflow)
RECURSIVE sum(_)
sum(xs) == IF xs = <<>> THEN 0 ELSE Head(xs) + sum(Tail(xs))
\* line 7
dot_product(v1, v2) == sum([i \in DOMAIN zip(v1, v2) |-> zip(v1, v2)[i][1] * zip(v1, v2)[i][2]])
(***************************************************************************)
(* The floats the model's vectors need are computed once and looked up;    *)
(* any other operand is computed on the spot.  (f @@ <<>> is f itself,     *)
(* evaluated for its whole domain.)                                        *)
(***************************************************************************)
Vectors == UNION {[1..n -> Elems] : n \in 0..MaxLen}
MaxSumSq == MaxLen * (CHOOSE m \in {e * e : e \in Elems} : \A e \in Elems : e * e <= m)
\* the vectors of lines 17-18
ExampleVector1 == <<3, 45, 7, 2>>
ExampleVector2 == <<2, 54, 13, 15>>
SqrtTable ==
    [n \in (0..MaxSumSq) \cup {dot_product(ExampleVector1, ExampleVector1),
                               dot_product(ExampleVector2, ExampleVector2)}
        |-> FSqrtExact(n)] @@ <<>>
SqrtVals == {SqrtTable[n] : n \in DOMAIN SqrtTable}
MulTable == [p \in SqrtVals \X SqrtVals |-> FMulExact(p[1], p[2])] @@ <<>>
MulVals == {MulTable[p] : p \in DOMAIN MulTable} \ {FZero}
DivTable ==
    [p \in {FromInt(n) : n \in (1..MaxSumSq) \cup {dot_product(ExampleVector1, ExampleVector2)}}
              \X MulVals |-> FDivExact(p[1], p[2])] @@ <<>>

math_sqrt(n) == IF n \in DOMAIN SqrtTable THEN SqrtTable[n] ELSE FSqrtExact(n)
FMul(x, y) == IF <<x, y>> \in DOMAIN MulTable THEN MulTable[<<x, y>>] ELSE FMulExact(x, y)
FDiv(x, y) ==
    IF x.sgn < 0 THEN FNeg(IF <<FNeg(x), y>> \in DOMAIN DivTable THEN DivTable[<<FNeg(x), y>>]
                                                               ELSE FDivExact(FNeg(x), y))
    ELSE IF <<x, y>> \in DOMAIN DivTable THEN DivTable[<<x, y>>] ELSE FDivExact(x, y)

\* a magnitude that takes the first element only
magnitude_of_first(v) == math_sqrt(IF v = <<>> THEN 0 ELSE v[1] * v[1])
\* lines 8 and 9: math.sqrt(sum(x**2 for x in v))
magnitude(v) == math_sqrt(sum([i \in DOMAIN v |-> v[i] * v[i]]))
\* float / float of line 14
TrueDiv(x, y) == IF y.sgn = 0 THEN Raised("ZeroDivisionError") ELSE Returned(FDiv(x, y))
\* a guard that asks for both magnitudes to be zero
both_zero(magnitude_v1, magnitude_v2) == magnitude_v1.sgn = 0 /\ magnitude_v2.sgn = 0
\* line 11
either_zero(magnitude_v1, magnitude_v2) == magnitude_v1.sgn = 0 \/ magnitude_v2.sgn = 0
\* a cosine_similarity whose zip is strict: it raises for vectors of different lengths
cosine_similarity_strict(v1, v2) ==
    IF Len(v1) # Len(v2) THEN Raised("ValueError")
    ELSE IF either_zero(magnitude(v1), magnitude(v2)) THEN Returned(FZero)
    ELSE TrueDiv(FromInt(dot_product(v1, v2)), FMul(magnitude(v1), magnitude(v2)))
\* a cosine_similarity whose magnitudes stop where the shorter vector ends
cosine_similarity_truncated(v1, v2) ==
    LET n == Min(Len(v1), Len(v2))
        m1 == magnitude(SubSeq(v1, 1, n))
        m2 == magnitude(SubSeq(v2, 1, n))
    IN  IF either_zero(m1, m2) THEN Returned(FZero)
        ELSE TrueDiv(FromInt(dot_product(v1, v2)), FMul(m1, m2))
\* a cosine_similarity that takes both magnitudes from v1
cosine_similarity_one_sided(v1, v2) ==
    IF either_zero(magnitude(v1), magnitude(v1)) THEN Returned(FZero)
    ELSE TrueDiv(FromInt(dot_product(v1, v2)), FMul(magnitude(v1), magnitude(v1)))
\* lines 3-14; the int 0 of line 12 and the float 0.0 are the same value here
cosine_similarity(v1, v2) ==
    IF either_zero(magnitude(v1), magnitude(v2)) THEN Returned(FZero)
    ELSE TrueDiv(FromInt(dot_product(v1, v2)), FMul(magnitude(v1), magnitude(v2)))

(***************************************************************************)
(* src/cosine-vector.py: text.  A str is the sequence of its characters;   *)
(* None is a value no str equals.                                          *)
(***************************************************************************)
None == <<"None">>
Whitespace == {" ", "\t"}
TopicTag == <<"T", "o", "p", "i", "c", ":">>
QuestionTag == <<"Q", "u", "e", "s", "t", "i", "o", "n", ":">>
KeyHead == <<"T", "o", "p", "i", "c", ":", " ">>
KeySeparator == <<" ", "|", " ", "Q", "u", "e", "s", "t", "i", "o", "n", ":", " ">>

\* the positions of s that hold no whitespace
Inked(s) == {i \in 1..Len(s) : s[i] \notin Whitespace}
First(S) == CHOOSE i \in S : \A j \in S : i <= j
Last(S) == CHOOSE i \in S : \A j \in S : j <= i
\* str.lstrip() and str.strip()
lstrip(s) == IF Inked(s) = {} THEN <<>> ELSE SubSeq(s, First(Inked(s)), Len(s))
strip(s) == IF Inked(s) = {} THEN <<>> ELSE SubSeq(s, First(Inked(s)), Last(Inked(s)))
StartsWith(s, tag) == Len(s) >= Len(tag) /\ SubSeq(s, 1, Len(tag)) = tag
\* re.match(tag \s*(.*), line).group(1).strip(), for a line that starts with tag
group1(line, tag) == strip(lstrip(SubSeq(line, Len(tag) + 1, Len(line))))
\* truth value of a str or None
truthy(x) == x # None /\ x # <<>>

\* line 735
unique_key_of(topic_text, question_text) == KeyHead \o topic_text \o KeySeparator \o question_text

\* a loop body in which a later Topic or Question line replaces an earlier one
after_line_last_wins(raw, found) ==
    LET line == strip(raw)
    IN  << IF StartsWith(line, TopicTag) THEN group1(line, TopicTag) ELSE found[1],
           IF StartsWith(line, QuestionTag) THEN group1(line, QuestionTag) ELSE found[2] >>
\* lines 721-732: topic_text and question_text after one more line
after_line(raw, found) ==
    LET line == strip(raw)
    IN  << IF StartsWith(line, TopicTag) /\ found[1] = None
           THEN group1(line, TopicTag) ELSE found[1],
           IF StartsWith(line, QuestionTag) /\ found[2] = None
           THEN group1(line, QuestionTag) ELSE found[2] >>
\* lines 720-738, from the line at the head of lines on, with the <<topic_text,
\* question_text>> found so far (the one-element set names the pair after the line)
RECURSIVE scan_lines(_, _)
scan_lines(lines, found) ==
    IF lines = <<>> THEN <<None, None, None>>
    ELSE CHOOSE r \in {IF truthy(f[1]) /\ truthy(f[2])
                       THEN <<f[1], f[2], unique_key_of(f[1], f[2])>>
                       ELSE scan_lines(Tail(lines), f) :
                       f \in {after_line(Head(lines), found)}} : TRUE

\* lines 709-741; a file is [name, readable, lines, encodable]; open() or the read fails
\* for an unreadable one
extract_key_data_from_file(file) ==
    IF file.readable THEN scan_lines(file.lines, <<None, None>>) ELSE <<None, None, None>>

(***************************************************************************)
(* src/cosine-vector.py: the scan.                                         *)
(***************************************************************************)
DATASET_FOLDER_NAMES == <<"typescript_dataset", "python_dataset", "sql_dataset">>
TOP_K == 10
WarnChars == 30

\* the embedding model and util.cos_sim stand outside the repository: the score of a
\* question is a fixed function of its text (here its length), and model.encode or
\* util.cos_sim raises for the files marked not encodable
score_of(question_text) == Len(question_text)

\* a field check that lets every file through
fields_never_missing(topic_text, question_text) == FALSE
\* line 780
fields_missing(topic_text, question_text) == ~(truthy(topic_text) /\ truthy(question_text))
\* line 787
warning_of(file, topic_text, question_text) ==
    [file |-> file, topic |-> topic_text,
     question |-> SubSeq(question_text, 1, Min(WarnChars, Len(question_text)))]
\* a redundancy check that forgets the key
seen_forgotten(unique_key, seen) == seen
\* lines 785-789: the seen keys and the warnings after the redundancy check
seen_after(unique_key, seen) == IF unique_key \in seen THEN seen ELSE seen \cup {unique_key}
\* a redundancy check that records a warning for every candidate
warnings_for_all(unique_key, seen, warnings, w) == Append(warnings, w)
warnings_after(unique_key, seen, warnings, w) ==
    IF unique_key \in seen THEN Append(warnings, w) ELSE warnings
\* line 800
result_of(question_text, file, folder_name, topic_text) ==
    <<question_text, file, score_of(question_text), folder_name, topic_text>>
\* an except clause that leaves the loop
break_on_error(idx, n) == n + 1
\* line 804: the loop goes on with the next file
after_error(idx, n) == idx + 1

\* a place in the sorted list that puts an entry before the earlier ones of its score
place_ties_reversed(xs, i) ==
    Cardinality({j \in DOMAIN xs : xs[j][3] > xs[i][3] \/ (xs[j][3] = xs[i][3] /\ j > i)}) + 1
\* sorted(xs, key=lambda x: x[2], reverse=True) is stable: xs[i] comes after the entries
\* of higher score and after the earlier entries of its own score
place_desc(xs, i) ==
    Cardinality({j \in DOMAIN xs : xs[j][3] > xs[i][3] \/ (xs[j][3] = xs[i][3] /\ j < i)}) + 1
sorted_desc(xs) == [k \in DOMAIN xs |-> xs[CHOOSE i \in DOMAIN xs : place_desc(xs, i) = k]]
\* a truncation without the sort
unsorted_head(xs) == SubSeq(xs, 1, Min(TOP_K, Len(xs)))
\* line 841
top_results_of(xs) == SubSeq(sorted_desc(xs), 1, Min(TOP_K, Len(xs)))

NumFolders == Len(DATASET_FOLDER_NAMES)
folder_name == DATASET_FOLDER_NAMES[folder_idx]
dataset_files == dataset[folder_name].files
file == dataset_files[file_idx]

\* lines 760-762
FolderNotFound ==
    /\ pc = "main" /\ folder_idx <= NumFolders
    /\ ~dataset[folder_name].is_dir
    /\ folder_idx' = folder_idx + 1
    /\ UNCHANGED <<dataset, pc, file_idx, similarities, duplicate_warnings, unique_questions,
                   all_similarities, all_duplicate_warnings, top_results, cos_vars, output>>
\* lines 764-767
FolderNoTxt ==
    /\ pc = "main" /\ folder_idx <= NumFolders
    /\ dataset[folder_name].is_dir /\ dataset_files = <<>>
    /\ folder_idx' = folder_idx + 1
    /\ UNCHANGED <<dataset, pc, file_idx, similarities, duplicate_warnings, unique_questions,
                   all_similarities, all_duplicate_warnings, top_results, cos_vars, output>>
\* lines 769-772
FolderEnter ==
    /\ pc = "main" /\ folder_idx <= NumFolders
    /\ dataset[folder_name].is_dir /\ dataset_files # <<>>
    /\ pc' = "files" /\ file_idx' = 1
    /\ similarities' = <<>> /\ duplicate_warnings' = <<>>
    /\ UNCHANGED <<dataset, folder_idx, unique_questions, all_similarities,
                   all_duplicate_warnings, top_results, cos_vars, output>>
\* lines 774-782: a file without both fields
FileSkipped ==
    /\ pc = "files" /\ file_idx <= Len(dataset_files)
    /\ \E extracted \in {extract_key_data_from_file(file)} :
         LET topic_text == extracted[1]
             question_text == extracted[2]
         IN  fields_missing(topic_text, question_text)
    /\ file_idx' = file_idx + 1
    /\ UNCHANGED <<dataset, pc, folder_idx, similarities, duplicate_warnings, unique_questions,
                   all_similarities, all_duplicate_warnings, top_results, cos_vars, output>>
\* lines 774-800: a file that is checked for redundancy and scored
FileScored ==
    /\ pc = "files" /\ file_idx <= Len(dataset_files)
    /\ \E extracted \in {extract_key_data_from_file(file)} :
         LET topic_text == extracted[1]
             question_text == extracted[2]
             unique_key == extracted[3]
         IN  /\ ~fields_missing(topic_text, question_text)
             /\ file.encodable
             /\ unique_questions' = seen_after(unique_key, unique_questions)
             /\ duplicate_warnings' =
                    warnings_after(unique_key, unique_questions, duplicate_warnings,
                                   warning_of(file.name, topic_text, question_text))
             /\ similarities' =
                    Append(similarities,
                           result_of(question_text, file.name, folder_name, topic_text))
    /\ file_idx' = file_idx + 1
    /\ UNCHANGED <<dataset, pc, folder_idx, all_similarities, all_duplicate_warnings,
                   top_results, cos_vars, output>>
\* lines 774-804: a file that is checked for redundancy and whose embedding raises
FileEmbedError ==
    /\ pc = "files" /\ file_idx <= Len(dataset_files)
    /\ \E extracted \in {extract_key_data_from_file(file)} :
         LET topic_text == extracted[1]
             question_text == extracted[2]
             unique_key == extracted[3]
         IN  /\ ~fields_missing(topic_text, question_text)
             /\ ~file.encodable
             /\ unique_questions' = seen_after(unique_key, unique_questions)
             /\ duplicate_warnings' =
                    warnings_after(unique_key, unique_questions, duplicate_warnings,
                                   warning_of(file.name, topic_text, question_text))
    /\ file_idx' = after_error(file_idx, Len(dataset_files))
    /\ UNCHANGED <<dataset, pc, folder_idx, similarities, all_similarities,
                   all_duplicate_warnings, top_results, cos_vars, output>>
\* line 806 and lines 830-837
FolderReturn ==
    /\ pc = "files" /\ file_idx > Len(dataset_files)
    /\ all_similarities' = all_similarities \o similarities
    /\ all_duplicate_warnings' =
           IF duplicate_warnings # <<>>
           THEN Append(all_duplicate_warnings, <<folder_name, duplicate_warnings>>)
           ELSE all_duplicate_warnings
    /\ folder_idx' = folder_idx + 1 /\ pc' = "main"
    /\ file_idx' = 0 /\ similarities' = <<>> /\ duplicate_warnings' = <<>>
    /\ UNCHANGED <<dataset, unique_questions, top_results, cos_vars, output>>
\* line 841
SortResults ==
    /\ pc = "main" /\ folder_idx > NumFolders
    /\ top_results' = top_results_of(all_similarities)
    /\ pc' = "done"
    /\ UNCHANGED <<dataset, folder_idx, file_idx, similarities, duplicate_warnings,
                   unique_questions, all_similarities, all_duplicate_warnings, cos_vars, output>>

\* a printed line: its kind, and what the line shows (0, "" and <<>> where it shows none)
printed(kind, folder, number, warning, entry) ==
    [kind |-> kind, folder |-> folder, number |-> number, warning |-> warning, entry |-> entry]
NoWarning == [file |-> 0, topic |-> <<>>, question |-> <<>>]
SUMMARY_EXAMPLES == 5
\* lines 843-845
results_header == <<printed("results header", "", 0, NoWarning, <<>>)>>
\* lines 849-854, one element for the four lines of a result
result_lines(results) ==
    [k \in DOMAIN results |-> printed("result", results[k][4], 0, NoWarning, results[k])]
\* a report that stays silent when there is no result
nothing_printed == <<>>
\* line 856
no_results == <<printed("no results", "", 0, NoWarning, <<>>)>>
\* a summary whose examples are numbered as enumerate counts them, from 0
examples_from_zero(warnings) ==
    [i \in 1..Min(SUMMARY_EXAMPLES, Len(warnings)) |->
        printed("example", "", i - 1, warnings[i], <<>>)]
\* lines 865-867: enumerate(warnings[:5]), printed as Example i+1
examples(warnings) ==
    [i \in 1..Min(SUMMARY_EXAMPLES, Len(warnings)) |->
        printed("example", "", i, warnings[i], <<>>)]
\* lines 863-869
folder_summary(folder, warnings) ==
    <<printed("total", folder, Len(warnings), NoWarning, <<>>)>>
    \o examples(warnings)
    \o (IF Len(warnings) > SUMMARY_EXAMPLES
        THEN <<printed("omitted", "", Len(warnings) - SUMMARY_EXAMPLES, NoWarning, <<>>)>>
        ELSE <<>>)
RECURSIVE summaries(_)
\* line 862: the folders of the dict, in insertion order
summaries(items) ==
    IF items = <<>> THEN <<>>
    ELSE folder_summary(Head(items)[1], Head(items)[2]) \o summaries(Tail(items))
\* lines 860-870
warning_summary(warnings_by_folder) ==
    IF warnings_by_folder # <<>>
    THEN <<printed("summary header", "", 0, NoWarning, <<>>)>>
         \o summaries(warnings_by_folder)
         \o <<printed("rule", "", 0, NoWarning, <<>>)>>
    ELSE <<>>

\* lines 843-856
PrintResults ==
    /\ pc = "done"
    /\ output' = results_header \o (IF top_results # <<>> THEN result_lines(top_results)
                                                         ELSE no_results)
    /\ pc' = "summary"
    /\ UNCHANGED <<dataset, folder_idx, file_idx, similarities, duplicate_warnings,
                   unique_questions, all_similarities, all_duplicate_warnings, top_results,
                   cos_vars>>
\* lines 859-870 (the print of the query embedding, lines 875-876, is left out)
PrintWarnings ==
    /\ pc = "summary"
    /\ output' = output \o warning_summary(all_duplicate_warnings)
    /\ pc' = "end"
    /\ UNCHANGED <<dataset, folder_idx, file_idx, similarities, duplicate_warnings,
                   unique_questions, all_similarities, all_duplicate_warnings, top_results,
                   cos_vars>>

\* cosine-similarity.py lines 17-19
Call ==
    /\ pc = "cosine" /\ similarity = NotCalled
    /\ similarity' = cosine_similarity(vector1, vector2)
    /\ UNCHANGED <<scan_vars, vector1, vector2>>

(***************************************************************************)
(* The inputs.  A run of cosine-vector.py is given a dataset: per folder    *)
(* name, whether it is a directory and its .txt files in listing order.     *)
(***************************************************************************)
Line(tag, text) == tag \o <<" ">> \o text
TopicA == <<"a">>
TopicB == <<"b">>
QuestionX == <<"x">>
QuestionLong == [i \in 1..(WarnChars + 1) |-> "y"]
FileKinds == {
    [readable |-> TRUE, encodable |-> TRUE,
     lines |-> << <<" ", " ">> \o TopicTag \o <<" ", " ", "a", " ">>, Line(QuestionTag, QuestionX) >>],
    [readable |-> TRUE, encodable |-> FALSE,
     lines |-> << Line(TopicTag, TopicA), Line(QuestionTag, QuestionX) >>],
    [readable |-> TRUE, encodable |-> TRUE,
     lines |-> << Line(QuestionTag, QuestionX), <<>>, Line(TopicTag, TopicB) >>],
    [readable |-> TRUE, encodable |-> TRUE,
     lines |-> << Line(TopicTag, TopicA), Line(QuestionTag, QuestionLong), Line(TopicTag, TopicB) >>],
    [readable |-> TRUE, encodable |-> TRUE,
     lines |-> << TopicTag, Line(TopicTag, TopicA), Line(QuestionTag, QuestionX) >>],
    [readable |-> FALSE, encodable |-> TRUE, lines |-> <<>>] }
\* the two kinds a long folder is made of: both are scored, with different scores
LongKinds == {k \in FileKinds : /\ k.encodable
                                /\ extract_key_data_from_file(k)[1] = TopicA
                                /\ extract_key_data_from_file(k)[2] \in {QuestionX, QuestionLong}}

NoFolder == [is_dir |-> FALSE, files |-> <<>>]
Folder(kinds) ==
    [is_dir |-> TRUE,
     files |-> [i \in 1..Len(kinds) |-> [name |-> i, readable |-> kinds[i].readable,
                                         lines |-> kinds[i].lines,
                                         encodable |-> kinds[i].encodable]]]
Folders(K, n) == {NoFolder} \cup {Folder(ks) : ks \in UNION {[1..m -> K] : m \in 0..n}}
Dataset(f1, f2, f3) ==
    [d \in {DATASET_FOLDER_NAMES[i] : i \in 1..NumFolders} |->
        IF d = DATASET_FOLDER_NAMES[1] THEN f1
        ELSE IF d = DATASET_FOLDER_NAMES[2] THEN f2 ELSE f3]

\* lines 824-826, before the loop over the folders
MainStart ==
    /\ pc = "main" /\ folder_idx = 1 /\ file_idx = 0
    /\ similarities = <<>> /\ duplicate_warnings = <<>>
    /\ unique_questions = {} /\ all_similarities = <<>>
    /\ all_duplicate_warnings = <<>> /\ top_results = <<>> /\ output = <<>>
    /\ vector1 = <<>> /\ vector2 = <<>> /\ similarity = NotCalled

\* at most MaxFiles files of any kind, spread over the folders
InitWide ==
    \E f1 \in Folders(FileKinds, MaxFiles) :
      \E f2 \in Folders(FileKinds, MaxFiles - Len(f1.files)) :
        \E f3 \in Folders(FileKinds, MaxFiles - Len(f1.files) - Len(f2.files)) :
          dataset = Dataset(f1, f2, f3)
\* one folder of up to MaxScored scored files, more than TOP_K
InitLong ==
    \E f1 \in Folders(LongKinds, MaxScored) : dataset = Dataset(f1, NoFolder, NoFolder)
\* a folder of MaxScored files with one content, then a folder of up to
\* MaxFiles scored files and a folder of at most one file
InitSummary ==
    \E f1 \in {Folder([i \in 1..MaxScored |-> k]) : k \in LongKinds},
       f2 \in Folders(LongKinds, MaxFiles), f3 \in Folders(FileKinds, 1) :
          dataset = Dataset(f1, f2, f3)

Init == MainStart /\ (InitWide \/ InitLong \/ InitSummary)

Next ==
    \/ FolderNotFound
    \/ FolderNoTxt
    \/ FolderEnter
    \/ FileSkipped
    \/ FileScored
    \/ FileEmbedError
    \/ FolderReturn
    \/ SortResults
    \/ PrintResults
    \/ PrintWarnings

Spec == Init /\ [][Next]_vars

\* cosine-similarity.py: the vectors of lines 17-18, and every small vector pair
InitCos ==
    /\ pc = "cosine" /\ folder_idx = 0 /\ file_idx = 0
    /\ dataset = Dataset(NoFolder, NoFolder, NoFolder)
    /\ similarities = <<>> /\ duplicate_warnings = <<>>
    /\ unique_questions = {} /\ all_similarities = <<>>
    /\ all_duplicate_warnings = <<>> /\ top_results = <<>> /\ output = <<>>
    /\ \/ vector1 \in Vectors /\ vector2 \in Vectors
       \/ vector1 = ExampleVector1 /\ vector2 = ExampleVector2
    /\ similarity = NotCalled

NextCos == Call

SpecCos == InitCos /\ [][NextCos]_vars

\* the lines a file is made of when every line is a Topic or a Question line:
\* without text, with a plain text, with a text that holds " | Question: "
TextLines ==
    {Line(TopicTag, <<>>), Line(TopicTag, TopicA),
     Line(TopicTag, TopicA \o KeySeparator \o TopicB),
     Line(QuestionTag, <<>>), Line(QuestionTag, QuestionX),
     Line(QuestionTag, TopicB \o KeySeparator \o QuestionX)}
\* the readable files of up to MaxLines such lines
ExtractKinds ==
    {[readable |-> TRUE, encodable |-> TRUE, lines |-> ls] :
        ls \in UNION {[1..m -> TextLines] : m \in 0..MaxLines}}
\* the files with topic "a" and a question with or without " | Question: "
PartnerKinds ==
    {[readable |-> TRUE, encodable |-> e, lines |-> <<Line(TopicTag, TopicA), q>>] :
        e \in BOOLEAN,
        q \in {Line(QuestionTag, QuestionX),
               Line(QuestionTag, TopicB \o KeySeparator \o QuestionX)}}
\* cosine-vector.py over a folder of two files, one of any lines and one with
\* both fields, in either order, a missing folder and a folder without .txt files
InitExtract ==
    /\ MainStart
    /\ \E k \in ExtractKinds, p \in PartnerKinds :
          \E ks \in {<<k, p>>, <<p, k>>} :
             dataset = Dataset(Folder(ks), NoFolder, Folder(<<>>))
SpecExtract == InitExtract /\ [][Next]_vars

(***************************************************************************)
(* The properties of cosine-vector.py, checked under Spec.                  *)
(***************************************************************************)
FolderNumbers == 1..NumFolders
FilesAt(f) == dataset[DATASET_FOLDER_NAMES[f]].files
\* the candidates of the dataset, as <<folder number, position in the listing>>
Candidates == UNION {{<<f, i>> : i \in 1..Len(FilesAt(f))} : f \in FolderNumbers}
FileOf(c) == FilesAt(c[1])[c[2]]
\* what extract_key_data_from_file returns for each file of the inputs, worked out once
Extracted ==
    [k \in FileKinds \cup ExtractKinds \cup PartnerKinds |-> extract_key_data_from_file(k)] @@ <<>>
ExtractedOf(c) ==
    Extracted[[readable |-> FileOf(c).readable, encodable |-> FileOf(c).encodable,
               lines |-> FileOf(c).lines]]
TopicOf(c) == ExtractedOf(c)[1]
QuestionOf(c) == ExtractedOf(c)[2]
KeyOf(c) == ExtractedOf(c)[3]
\* the candidate passed the field check: a non-empty topic and a non-empty question
HasFields(c) == TopicOf(c) \notin {None, <<>>} /\ QuestionOf(c) \notin {None, <<>>}
Fails(c) == HasFields(c) /\ ~FileOf(c).encodable
Before(c, d) == c[1] < d[1] \/ (c[1] = d[1] /\ c[2] < d[2])
\* the candidates whose loop iteration is over
Processed == {c \in Candidates : \/ c[1] < folder_idx
                                 \/ pc = "files" /\ c[1] = folder_idx /\ c[2] < file_idx}
\* the candidate whose loop iteration the next step is
AtFile == pc = "files" /\ file_idx <= Len(dataset_files)
Current == <<folder_idx, file_idx>>
\* the warnings recorded so far under the label of folder f
WarningsOf(f) ==
    IF pc = "files" /\ f = folder_idx THEN duplicate_warnings
    ELSE LET S == {k \in DOMAIN all_duplicate_warnings :
                      all_duplicate_warnings[k][1] = DATASET_FOLDER_NAMES[f]}
         IN  IF S = {} THEN <<>> ELSE all_duplicate_warnings[CHOOSE k \in S : TRUE][2]
Flagged(c) == \E k \in DOMAIN WarningsOf(c[1]) : WarningsOf(c[1])[k].file = FileOf(c).name
\* the entries appended so far, in the order of all_similarities
ScoredSoFar == all_similarities \o (IF pc = "files" THEN similarities ELSE <<>>)
EntryOf(c) == <<QuestionOf(c), FileOf(c).name, score_of(QuestionOf(c)),
                DATASET_FOLDER_NAMES[c[1]], TopicOf(c)>>
Scored(c) == \E k \in DOMAIN ScoredSoFar : ScoredSoFar[k] = EntryOf(c)
RECURSIVE EntriesFrom(_, _, _)
\* the entries of the candidates of S that have their fields and an embedding, in
\* processing order from <<f, i>> on
EntriesFrom(f, i, S) ==
    IF f > NumFolders THEN <<>>
    ELSE IF i > Len(FilesAt(f)) THEN EntriesFrom(f + 1, 1, S)
    ELSE (IF <<f, i>> \in S /\ HasFields(<<f, i>>) /\ FilesAt(f)[i].encodable
          THEN <<EntryOf(<<f, i>>)>> ELSE <<>>) \o EntriesFrom(f, i + 1, S)

\* C1 (as the specification states it): a candidate whose embedding call fails is
\* excluded from duplicate tracking: its iteration leaves unique_questions and
\* duplicate_warnings as they were.
C1_FailedEmbeddingNotTracked ==
    [][AtFile /\ Fails(Current) => UNCHANGED <<unique_questions, duplicate_warnings>>]_vars

\* C2: a processed candidate that passed the field check is recorded as a duplicate
\* under its own folder if and only if an earlier candidate of any folder had the same
\* key; a folder's list holds nothing else; and a flagged candidate with an embedding
\* is scored all the same.
C2_DuplicateIffEarlierSameKey ==
    /\ \A c \in Processed :
         /\ Flagged(c) <=> /\ HasFields(c)
                           /\ \E d \in Processed : Before(d, c) /\ HasFields(d) /\ KeyOf(d) = KeyOf(c)
         /\ HasFields(c) /\ FileOf(c).encodable => Scored(c)
    /\ \A f \in FolderNumbers :
         Len(WarningsOf(f)) = Cardinality({c \in Processed : c[1] = f /\ Flagged(c)})
W_C2 ==
    /\ pc = "done"
    /\ \E c \in Processed : \E d \in Processed :
         /\ d[1] < c[1] /\ HasFields(d) /\ HasFields(c) /\ KeyOf(d) = KeyOf(c)
         /\ Flagged(c) /\ ~Flagged(d) /\ Scored(c) /\ Scored(d)

Positions == DOMAIN all_similarities
InTop(e) == \E k \in DOMAIN top_results : top_results[k] = e
PlaceOf(e) == CHOOSE k \in DOMAIN top_results : top_results[k] = e

\* C3: top_results has min(TOP_K, n) entries, each a distinct entry of all_similarities,
\* in non-increasing score order, and no entry left out has a higher score than one
\* that is in it.
C3_TopResults ==
    pc = "done" =>
      /\ Len(top_results) = Min(TOP_K, Len(all_similarities))
      /\ \A k \in DOMAIN top_results : \E i \in Positions : all_similarities[i] = top_results[k]
      /\ \A k \in DOMAIN top_results : \A m \in DOMAIN top_results :
           /\ k # m => top_results[k] # top_results[m]
           /\ k < m => top_results[k][3] >= top_results[m][3]
      /\ \A i \in Positions : \A k \in DOMAIN top_results :
           ~InTop(all_similarities[i]) => all_similarities[i][3] <= top_results[k][3]
W_C3 ==
    /\ pc = "done" /\ Len(all_similarities) > TOP_K
    /\ \E i \in Positions : \E j \in Positions :
         /\ i < j /\ all_similarities[i][3] < all_similarities[j][3]
         /\ ~InTop(all_similarities[i]) /\ InTop(all_similarities[j])

\* C4: two entries of equal score keep in top_results the order in which they were
\* appended to all_similarities, and when the truncation keeps only one of them it
\* keeps the one appended first.
C4_StableSort ==
    pc = "done" =>
      \A i \in Positions : \A j \in Positions :
        i < j /\ all_similarities[i][3] = all_similarities[j][3] /\ InTop(all_similarities[j])
          => /\ InTop(all_similarities[i])
             /\ PlaceOf(all_similarities[i]) < PlaceOf(all_similarities[j])
W_C4 ==
    /\ pc = "done"
    /\ \E i \in Positions : \E j \in Positions : \E m \in Positions :
         /\ i < j /\ j < m
         /\ all_similarities[i][3] = all_similarities[j][3]
         /\ all_similarities[j][3] = all_similarities[m][3]
         /\ InTop(all_similarities[i]) /\ InTop(all_similarities[j])
         /\ ~InTop(all_similarities[m])

\* C5: when exactly one candidate of the run has a failing embedding call, the scan
\* goes on past it: at every point the entries appended so far are those of the
\* candidates processed so far that passed the field check, the failing one left out,
\* in processing order; and at the end every candidate has been processed.
C5_OneFailureSkipped ==
    Cardinality({c \in Candidates : Fails(c)}) = 1 =>
      /\ ScoredSoFar = EntriesFrom(1, 1, Processed)
      /\ \A c \in Candidates : Fails(c) => ~Scored(c)
      /\ pc = "done" => Processed = Candidates /\ all_similarities = EntriesFrom(1, 1, Candidates)
W_C5 ==
    /\ pc = "done" /\ Cardinality({c \in Candidates : Fails(c)}) = 1
    /\ \E c \in Candidates : \E d \in Candidates : \E e \in Candidates :
         /\ Fails(c) /\ d[1] = c[1] /\ e[1] = c[1] /\ d[2] < c[2] /\ c[2] < e[2]
         /\ Scored(d) /\ Scored(e)

\* C6: the iteration of a file without both a non-empty topic and a non-empty question
\* adds no entry, adds no warning, leaves the seen keys alone and moves on to the next
\* file; at the end such a file has no entry and the files after it have theirs.
C6_MissingFieldsExcluded ==
    /\ [][AtFile /\ ~HasFields(Current) =>
            /\ UNCHANGED <<similarities, duplicate_warnings, unique_questions,
                           all_similarities, all_duplicate_warnings>>
            /\ file_idx' = file_idx + 1 /\ pc' = "files"]_vars
    /\ [](pc = "done" =>
            \A c \in Candidates : ~HasFields(c) =>
              /\ ~\E k \in Positions : /\ all_similarities[k][2] = FileOf(c).name
                                       /\ all_similarities[k][4] = DATASET_FOLDER_NAMES[c[1]]
              /\ \A d \in Candidates :
                   Before(c, d) /\ HasFields(d) /\ FileOf(d).encodable => Scored(d))
W_C6 ==
    /\ pc = "done"
    /\ \E c \in Candidates : \E d \in Candidates :
         /\ ~HasFields(c) /\ c[1] = d[1] /\ c[2] < d[2] /\ Scored(d)
         /\ FileOf(c).readable /\ Len(FileOf(c).lines) > 1

(***************************************************************************)
(* The properties of cosine-similarity.py, checked under SpecCos.           *)
(***************************************************************************)
Called == pc = "cosine" /\ similarity # NotCalled
RECURSIVE ProductsUpTo(_, _, _)
\* v1[1]*v2[1] + ... + v1[n]*v2[n]
ProductsUpTo(v1, v2, n) == IF n = 0 THEN 0 ELSE v1[n] * v2[n] + ProductsUpTo(v1, v2, n - 1)
SumOfSquares(v) == ProductsUpTo(v, v, Len(v))
Shorter == Min(Len(vector1), Len(vector2))
DotOverShorter == ProductsUpTo(vector1, vector2, Shorter)
\* the elements a vector has beyond the length of the other one
Extras(v) == {v[i] : i \in (Shorter + 1)..Len(v)}
Cut(v) == SubSeq(v, 1, Shorter)

\* C7: when the sum of squares of v1 or of v2 is zero, the empty vector included,
\* cosine_similarity returns 0 and raises no division error.
C7_ZeroMagnitudeGivesZero ==
    Called /\ (SumOfSquares(vector1) = 0 \/ SumOfSquares(vector2) = 0)
      => similarity = Returned(FZero)
W_C7 ==
    /\ Called
    /\ \/ vector1 = <<>> /\ SumOfSquares(vector2) # 0
       \/ SumOfSquares(vector1) # 0 /\ vector2 # <<>> /\ SumOfSquares(vector2) = 0

\* C8 (as the specification states it): the extra trailing elements of the longer
\* vector are ignored: the call gives what it gives with the longer vector cut to the
\* length of the shorter one.
C8_ExtrasIgnored ==
    Called /\ Len(vector1) # Len(vector2)
      => similarity = cosine_similarity(Cut(vector1), Cut(vector2))
\* C8 (amended): for vectors of different lengths no error is raised, and the call
\* gives what it gives with the longer vector cut to the length of the shorter one
\* when every extra element is zero; only the dot product leaves the extras out.
C8_ZeroExtrasIgnored ==
    Called /\ Len(vector1) # Len(vector2)
      => /\ similarity.raised = "none"
         /\ dot_product(vector1, vector2) = dot_product(Cut(vector1), Cut(vector2))
         /\ Extras(vector1) \cup Extras(vector2) \subseteq {0}
              => similarity = cosine_similarity(Cut(vector1), Cut(vector2))
W_C8 ==
    /\ Called /\ Len(vector1) # Len(vector2) /\ Shorter > 0
    /\ Extras(vector1) \cup Extras(vector2) = {0}
    /\ DotOverShorter # 0

\* C9: for vectors of non-zero magnitude, of equal or different lengths,
\* cosine_similarity returns dot / (magA * magB), dot summed over the first
\* min(len(v1), len(v2)) positions and each magnitude the square root of the sum of
\* squares of all the elements of its vector; no error is raised.
C9_DotOverMagnitudes ==
    Called /\ SumOfSquares(vector1) # 0 /\ SumOfSquares(vector2) # 0
      => similarity = Returned(FDiv(FromInt(DotOverShorter),
                                    FMul(math_sqrt(SumOfSquares(vector1)),
                                         math_sqrt(SumOfSquares(vector2)))))
W_C9 ==
    /\ Called /\ Len(vector1) # Len(vector2) /\ DotOverShorter # 0
    /\ Extras(vector1) \cup Extras(vector2) # {0}
    /\ similarity.raised = "none"

\* C10 (as the specification states it): for vectors of non-zero magnitude the value
\* returned lies in the closed range [-1, 1].
C10_WithinUnitRange ==
    Called /\ SumOfSquares(vector1) # 0 /\ SumOfSquares(vector2) # 0
      => similarity.raised = "none" /\ FAbsLeOne(similarity.value)

\* x, a positive float, rounds to n / scale at the decimals of scale:
\* (2n - 1) / (2 scale) <= x < (2n + 1) / (2 scale), for x.exp <= 0
FRoundsTo(x, n, scale) ==
    /\ x.sgn = 1 /\ x.exp <= 0
    /\ BCmp(BMul(x.man, BFromInt(2 * scale)), BMul(BFromInt(2 * n - 1), BPow2(-x.exp))) >= 0
    /\ BCmp(BMul(x.man, BFromInt(2 * scale)), BMul(BFromInt(2 * n + 1), BPow2(-x.exp))) < 0
OnExample == Called /\ vector1 = ExampleVector1 /\ vector2 = ExampleVector2

\* C11 (as the specification states it): for the example vectors of the script the dot
\* product is 2649, the magnitudes are 45.82 and 58.12 at two decimals, and the value
\* returned rounds to 0.9757 at four decimals.
C11_ExampleAsStated ==
    OnExample =>
      /\ dot_product(vector1, vector2) = 2649
      /\ FRoundsTo(magnitude(vector1), 4582, 100)
      /\ FRoundsTo(magnitude(vector2), 5812, 100)
      /\ similarity.raised = "none" /\ FRoundsTo(similarity.value, 9757, 10000)
\* C11 (amended): for the example vectors of the script the dot product is 2557, the
\* magnitudes are 45.68 and 57.57 at two decimals, and the value returned rounds to
\* 0.9723 at four decimals.
C11_ExampleAsComputed ==
    OnExample =>
      /\ dot_product(vector1, vector2) = 2557
      /\ FRoundsTo(magnitude(vector1), 4568, 100)
      /\ FRoundsTo(magnitude(vector2), 5757, 100)
      /\ similarity.raised = "none" /\ FRoundsTo(similarity.value, 9723, 10000)
W_C11 == OnExample /\ similarity.raised = "none" /\ similarity.value.sgn = 1

\* the float 1.0
FOne == FromInt(1)

\* C12 (as the specification states it): for every vector a of non-zero magnitude,
\* cosine_similarity(a, a) is exactly 1.
C12_SelfSimilarityIsOne ==
    Called /\ vector1 = vector2 /\ SumOfSquares(vector1) # 0 => similarity = Returned(FOne)

\* C13: for vectors of non-zero magnitude, of equal or different lengths,
\* cosine_similarity(a, b) is the value of cosine_similarity(b, a).
C13_Symmetric ==
    Called /\ SumOfSquares(vector1) # 0 /\ SumOfSquares(vector2) # 0
      => similarity = cosine_similarity(vector2, vector1)
W_C13 ==
    /\ Called /\ Len(vector1) < Len(vector2) /\ DotOverShorter # 0
    /\ SumOfSquares(vector1) # SumOfSquares(vector2)
    /\ similarity.value # FOne

(***************************************************************************)
(* The printed report.                                                     *)
(***************************************************************************)
\* the positions of the output where a line of the kind stands
LinesOf(kind) == {k \in DOMAIN output : output[k].kind = kind}
\* the positions of the total line of folder f
TotalsOf(f) == {k \in LinesOf("total") : output[k].folder = DATASET_FOLDER_NAMES[f]}
\* the examples shown for a group of w duplicates
Shown(w) == IF w < 5 THEN w ELSE 5
RECURSIVE ShownUpTo(_)
ShownUpTo(f) == IF f = 0 THEN 0 ELSE Shown(Len(WarningsOf(f))) + ShownUpTo(f - 1)

\* C14: once the summary is printed, every folder with w >= 1 recorded
\* duplicates has one total line stating w, followed by exactly min(w, 5)
\* examples, the first ones in recording order numbered from 1, and then by
\* the omitted-count line, stating w - 5, exactly when w > 5; a folder with
\* no duplicates has no line, and no example or omitted-count line stands
\* outside these blocks, however many results the ranking kept.
C14_DuplicateSummary ==
    pc = "end" =>
        /\ \A f \in FolderNumbers :
              LET w == Len(WarningsOf(f))
              IN  IF w = 0 THEN TotalsOf(f) = {}
                  ELSE /\ Cardinality(TotalsOf(f)) = 1
                       /\ \A k \in TotalsOf(f) :
                             /\ output[k].number = w
                             /\ k + Shown(w) + 1 \in DOMAIN output
                             /\ \A i \in 1..Shown(w) :
                                   /\ output[k + i].kind = "example"
                                   /\ output[k + i].number = i
                                   /\ output[k + i].warning = WarningsOf(f)[i]
                             /\ IF w > 5
                                THEN /\ output[k + Shown(w) + 1].kind = "omitted"
                                     /\ output[k + Shown(w) + 1].number = w - 5
                                ELSE output[k + Shown(w) + 1].kind \notin {"example", "omitted"}
        /\ Cardinality(LinesOf("example")) = ShownUpTo(NumFolders)
        /\ Cardinality(LinesOf("omitted"))
              = Cardinality({f \in FolderNumbers : Len(WarningsOf(f)) > 5})
\* the summary is printed with a folder of more than 5 duplicates, one of 1
\* to 5, one of none, and more candidates scored than the ranking keeps
W_C14 ==
    /\ pc = "end"
    /\ \E f \in FolderNumbers : Len(WarningsOf(f)) > 5
    /\ \E f \in FolderNumbers : Len(WarningsOf(f)) \in 1..5
    /\ \E f \in FolderNumbers : Len(WarningsOf(f)) = 0
    /\ Len(all_similarities) > TOP_K

(***************************************************************************)
(* The run as a whole.                                                     *)
(***************************************************************************)
\* the steps the script takes for folder f: one when it is missing or has no
\* .txt file, else one to enter it, one per file and one to return
FolderSteps(f) ==
    IF ~dataset[DATASET_FOLDER_NAMES[f]].is_dir \/ FilesAt(f) = <<>> THEN 1
    ELSE Len(FilesAt(f)) + 2
RECURSIVE StepsFrom(_)
\* the steps from the start of folder f to the end of the script: the folders
\* from f on, the sort and the two parts of the report
StepsFrom(f) == IF f > NumFolders THEN 3 ELSE FolderSteps(f) + StepsFrom(f + 1)
\* the steps between the current position and the end of the script
StepsLeft ==
    CASE pc = "main" -> StepsFrom(folder_idx)
      [] pc = "files" -> (Len(dataset_files) + 1 - file_idx) + 1 + StepsFrom(folder_idx + 1)
      [] pc = "done" -> 2
      [] pc = "summary" -> 1
      [] pc = "end" -> 0
\* the entries appended so far for candidate c
EntriesOf(c) == {k \in DOMAIN ScoredSoFar : /\ ScoredSoFar[k][2] = FileOf(c).name
                                            /\ ScoredSoFar[k][4] = DATASET_FOLDER_NAMES[c[1]]}
\* the outcomes candidate c has ended in
OutcomesOf(c) ==
    {o \in {"excluded", "skipped", "scored"} :
        \/ o = "excluded" /\ ~HasFields(c) /\ EntriesOf(c) = {}
        \/ o = "skipped" /\ Fails(c) /\ EntriesOf(c) = {}
        \/ o = "scored" /\ HasFields(c) /\ FileOf(c).encodable
                        /\ Cardinality(EntriesOf(c)) = 1}
Reporting == pc \in {"done", "summary", "end"}

\* C15: the run is one pass that ends: every step brings the script one step
\* closer to its end, whatever the folders hold (missing folders, folders
\* without .txt files, files with missing fields, failing embedding calls);
\* a step at a file processes that file and no other, no file twice; each
\* processed file has ended in exactly one of excluded, skipped and scored
\* and the files not yet reached in none; at the report every file has been
\* processed; and the report prints the no-results message, and no result,
\* exactly when no candidate was scored.
C15_OnePassToTheReport ==
    /\ [][StepsLeft' = StepsLeft - 1
          /\ IF AtFile THEN Current \notin Processed /\ Processed' = Processed \cup {Current}
                       ELSE Processed' = Processed]_vars
    /\ [](/\ StepsLeft >= 0
          /\ \A c \in Processed : Cardinality(OutcomesOf(c)) = 1
          /\ \A c \in Candidates \ Processed : EntriesOf(c) = {}
          /\ Reporting => Processed = Candidates
          /\ pc \in {"summary", "end"} =>
                /\ LinesOf("results header") = {1}
                /\ (all_similarities = <<>>) <=> (LinesOf("no results") = {2})
                /\ Cardinality(LinesOf("result")) = Len(top_results)
                /\ all_similarities = <<>> => LinesOf("result") = {})
\* a run that reached the end of the report past a missing folder, a folder
\* without .txt files and a folder with an excluded and a skipped file, with
\* no candidate scored
W_C15 ==
    /\ pc = "end" /\ all_similarities = <<>> /\ LinesOf("no results") # {}
    /\ \E f \in FolderNumbers : ~dataset[DATASET_FOLDER_NAMES[f]].is_dir
    /\ \E f \in FolderNumbers : dataset[DATASET_FOLDER_NAMES[f]].is_dir /\ FilesAt(f) = <<>>
    /\ \E c \in Candidates : \E d \in Candidates :
          c[1] = d[1] /\ OutcomesOf(c) = {"excluded"} /\ OutcomesOf(d) = {"skipped"}

(***************************************************************************)
(* The bookkeeping of the redundancy check, checked under Spec.            *)
(***************************************************************************)
RECURSIVE WarningsUpTo(_)
\* the number of warnings recorded so far under the labels of folders 1..f
WarningsUpTo(f) == IF f = 0 THEN 0 ELSE Len(WarningsOf(f)) + WarningsUpTo(f - 1)
TotalWarnings == WarningsUpTo(NumFolders)

\* C17: no step removes a seen key; the step of a candidate that passed the
\* field check adds either one new key and no warning or one warning and
\* no key; no other step adds a key or a warning; and at every point the
\* number of seen keys plus the number of warnings recorded over all folders
\* is the number of processed candidates that passed the field check.
C17_KeysPlusWarnings ==
    /\ [][/\ unique_questions \subseteq unique_questions'
          /\ IF AtFile /\ HasFields(Current)
             THEN \/ /\ Cardinality(unique_questions') = Cardinality(unique_questions) + 1
                     /\ TotalWarnings' = TotalWarnings
                  \/ /\ unique_questions' = unique_questions
                     /\ TotalWarnings' = TotalWarnings + 1
             ELSE /\ unique_questions' = unique_questions
                  /\ TotalWarnings' = TotalWarnings]_vars
    /\ [](Cardinality(unique_questions) + TotalWarnings
             = Cardinality({c \in Processed : HasFields(c)}))
\* a run is over with two seen keys, warnings under two folders, and a
\* candidate that did not pass the field check
W_C17 ==
    /\ pc = "end" /\ Cardinality(unique_questions) >= 2
    /\ \E f \in FolderNumbers : \E g \in FolderNumbers :
          f # g /\ WarningsOf(f) # <<>> /\ WarningsOf(g) # <<>>
    /\ \E c \in Candidates : ~HasFields(c)

(***************************************************************************)
(* The key and the extraction, checked under SpecExtract.                  *)
(***************************************************************************)
SamePair(c, d) == TopicOf(c) = TopicOf(d) /\ QuestionOf(c) = QuestionOf(d)

\* C16 (as the specification states it): two candidates that passed the field
\* check have equal keys if and only if their topics are equal and their
\* questions are equal, and so a candidate is flagged as a duplicate if and
\* only if an earlier one has the same topic and the same question, texts
\* that hold " | Question: " included.
C16_KeyIdentifiesPair ==
    /\ \A c \in Processed : \A d \in Processed :
          HasFields(c) /\ HasFields(d) => (KeyOf(c) = KeyOf(d) <=> SamePair(c, d))
    /\ \A d \in Processed :
          HasFields(d) =>
             (Flagged(d) <=> \E c \in Processed : Before(c, d) /\ HasFields(c) /\ SamePair(c, d))

\* the positions of the lines that start with the tag, once stripped
WithTag(lines, tag) == {i \in DOMAIN lines : StartsWith(strip(lines[i]), tag)}
\* the text of line i after the tag
TextAt(lines, i, tag) == group1(strip(lines[i]), tag)
\* the text of the first line that starts with the tag, None without such a line
FirstText(lines, tag) ==
    IF WithTag(lines, tag) = {} THEN None ELSE TextAt(lines, First(WithTag(lines, tag)), tag)
NoData == <<None, None, None>>

\* C18: for every readable file that has been processed,
\* extract_key_data_from_file returns (t, q, "Topic: " + t + " | Question: " + q),
\* with t the text of the first Topic line and q the text of the first
\* Question line, when both lines exist and both texts are non-empty, and
\* (None, None, None) otherwise: in particular when the first Topic line or the
\* first Question line has no text, whatever the later lines hold.
C18_FirstMatchesAllOrNothing ==
    \A c \in Processed :
        FileOf(c).readable =>
            LET t == FirstText(FileOf(c).lines, TopicTag)
                q == FirstText(FileOf(c).lines, QuestionTag)
                r == extract_key_data_from_file(FileOf(c))
            IN  /\ r = IF t \notin {None, <<>>} /\ q \notin {None, <<>>}
                       THEN <<t, q, KeyHead \o t \o KeySeparator \o q>>
                       ELSE NoData
                /\ r # NoData => r[1] # <<>> /\ r[2] # <<>>
                /\ t = <<>> \/ q = <<>> => r = NoData
\* a processed file whose first Topic line has no text while a later Topic
\* line and the first Question line have one, next to a processed file with
\* both texts
W_C18 ==
    /\ \E c \in Processed :
          /\ FirstText(FileOf(c).lines, TopicTag) = <<>>
          /\ \E i \in WithTag(FileOf(c).lines, TopicTag) :
                TextAt(FileOf(c).lines, i, TopicTag) # <<>>
          /\ FirstText(FileOf(c).lines, QuestionTag) \notin {None, <<>>}
          /\ extract_key_data_from_file(FileOf(c)) = NoData
    /\ \E c \in Processed : extract_key_data_from_file(FileOf(c)) # NoData
================================================================================
